---------------------------- MODULE Spec2Model ----------------------------
(***************************************************************************)
(* Model of the grouping strategy engine of                                *)
(* src/src/sentry/grouping/strategies/base.py: the GroupingContext scope   *)
(* stack, Strategy.get_grouping_components with its priority dedup,        *)
(* call_with_variants, the STRATEGIES registry,                            *)
(* create_strategy_configuration, iter_strategies and the dispatch of a    *)
(* context to the delegates of its configuration.                          *)
(*                                                                         *)
(* Python strings that the code inspects character by character (variant   *)
(* names, strategy ids) are sequences of one-character strings; None is    *)
(* the one-element sequence <<"None">>, which no character sequence         *)
(* equals.  A dict whose iteration order matters is a sequence of [k, v]   *)
(* records with pairwise distinct keys, in insertion order; a dict that is *)
(* only read by key is a function on its set of keys.  An object that is   *)
(* updated in place (a grouping component) lives in a heap and is named by *)
(* its reference.                                                          *)
(***************************************************************************)
EXTENDS Integers, Sequences, FiniteSets, TLC

VARIABLES
    _stack,           \* GroupingContext._stack: the frames, bottom first
    initial_context,  \* StrategyConfiguration.initial_context: the dict the bottom frame refers to
    scopes,           \* history: for each frame on _stack, what every key read just before the frame was appended
    components,       \* heap of grouping components: reference -> [contributes, hint, hash]
    STRATEGIES,       \* the registry: ordered dict id -> Strategy
    configs,          \* the configurations built so far, in creation order
    registered,       \* history: the [id, strategy] pairs the strategy decorator has stored since the initial state, oldest first
    ret               \* the last call: its name, its arguments, what it returned or raised, what it invoked

vars == <<_stack, initial_context, scopes, components, STRATEGIES, configs, registered, ret>>

-----------------------------------------------------------------------------
(* Python values *)

None == <<"None">>

Bang == "!"

\* score: int | None
NoScore == [none |-> TRUE, n |-> 0]

Score(n) == [none |-> FALSE, n |-> n]

\* RuntimeError, LookupError, KeyError, IndexError, AssertionError, or "None" when nothing was raised
NoExc == "None"

-----------------------------------------------------------------------------
(* Bounds of the model *)

\* frames a context may hold (the bottom frame included)
MaxDepth == 3

\* entries in the mapping a strategy function returns
MaxVariants == 3

\* names a produces_variants decorator declares
MaxDeclared == 2

\* strategy and delegate ids one create_strategy_configuration call names, together
MaxRequested == 3

-----------------------------------------------------------------------------
Max(S) == CHOOSE x \in S : \A y \in S : y <= x

(* dict: unordered (a function) *)

EmptyDict == [k \in {} |-> None]

\* d[k] = v
DictPut(d, k, v) == [x \in (DOMAIN d) \cup {k} |-> IF x = k THEN v ELSE d[x]]

\* d.update(e)
DictUpdate(d, e) == [x \in (DOMAIN d) \cup (DOMAIN e) |-> IF x \in DOMAIN e THEN e[x] ELSE d[x]]

(* dict: ordered (a sequence of [k, v]) *)

ODKeys(od) == {od[i].k : i \in 1..Len(od)}

ODIndex(od, k) == CHOOSE i \in 1..Len(od) : od[i].k = k

\* od.get(k): None when k is no key
ODGet(od, k) == IF k \in ODKeys(od) THEN od[ODIndex(od, k)].v ELSE None

\* od[k] = v: an existing key keeps its place, a new one goes last
ODSet(od, k, v) ==
    IF k \in ODKeys(od)
    THEN [od EXCEPT ![ODIndex(od, k)] = [k |-> k, v |-> v]]
    ELSE Append(od, [k |-> k, v |-> v])

\* od.pop(k, None)
ODPop(od, k) == SelectSeq(od, LAMBDA e : e.k # k)

-----------------------------------------------------------------------------
(* GroupingContext *)

ContextKeys == {"variant", "k"}

ContextValues == {None, <<"s">>}

\* the frame __init__ starts the stack with: the configuration's own dict, not a copy
ConfigFrame == [ref |-> "config", d |-> EmptyDict]

\* a frame push() appends: a fresh dict nothing else refers to
OwnFrame(d) == [ref |-> "own", d |-> d]

\* the dict a frame stands for
FrameDict(fr, ic) == IF fr.ref = "config" THEN ic ELSE fr.d

\* GroupingContext.push
CtxPush(st) == Append(st, OwnFrame(EmptyDict))

\* GroupingContext.pop (list.pop raises IndexError on an empty list)
CtxPopRaises(st) == Len(st) = 0

CtxPop(st) == IF Len(st) = 0 THEN st ELSE SubSeq(st, 1, Len(st) - 1)

\* GroupingContext.__exit__, which the with statement calls when its body returns
\* and when it raises
ExitOnReturnOnly(st, raised) == IF raised THEN st ELSE CtxPop(st)

CtxExit(st, raised) == CtxPop(st)

\* GroupingContext.__setitem__: writes the top frame's dict; c is [stack, ic]
CtxSetRaises(c) == Len(c.stack) = 0

SetBottom(c, k, v) ==
    IF Len(c.stack) = 0 THEN c
    ELSE IF c.stack[1].ref = "config"
         THEN [c EXCEPT !.ic = DictPut(c.ic, k, v)]
         ELSE [c EXCEPT !.stack[1].d = DictPut(c.stack[1].d, k, v)]

CtxSet(c, k, v) ==
    IF Len(c.stack) = 0 THEN c
    ELSE LET top == Len(c.stack) IN
         IF c.stack[top].ref = "config"
         THEN [c EXCEPT !.ic = DictPut(c.ic, k, v)]
         ELSE [c EXCEPT !.stack[top].d = DictPut(c.stack[top].d, k, v)]

\* GroupingContext.__getitem__: the first frame from the top that has the key
RECURSIVE ScanUp(_, _, _, _)
ScanUp(st, ic, k, i) ==
    IF i > Len(st) THEN [exc |-> "KeyError", value |-> None]
    ELSE IF k \in DOMAIN FrameDict(st[i], ic)
         THEN [exc |-> NoExc, value |-> FrameDict(st[i], ic)[k]]
         ELSE ScanUp(st, ic, k, i + 1)

GetFromBottom(st, ic, k) == ScanUp(st, ic, k, 1)

RECURSIVE ScanDown(_, _, _, _)
ScanDown(st, ic, k, i) ==
    IF i = 0 THEN [exc |-> "KeyError", value |-> None]
    ELSE IF k \in DOMAIN FrameDict(st[i], ic)
         THEN [exc |-> NoExc, value |-> FrameDict(st[i], ic)[k]]
         ELSE ScanDown(st, ic, k, i - 1)

CtxGet(st, ic, k) == ScanDown(st, ic, k, Len(st))

\* what every key reads
Readout(st, ic) == [k \in ContextKeys |-> CtxGet(st, ic, k)]

\* GroupingContext.__init__
CtxInitUnpushed(ic) == CtxSet([stack |-> <<ConfigFrame>>, ic |-> ic], "variant", None)

CtxInit(ic) ==
    CtxSet([stack |-> CtxPush(<<ConfigFrame>>), ic |-> ic], "variant", None)

-----------------------------------------------------------------------------
(* Variant names *)

\* variant_name.startswith("!")
StartsWithBang(n) == Len(n) > 0 /\ n[1] = Bang

\* variant_name.lstrip("!"): every leading "!" goes, not only the first
RECURSIVE LStrip(_)
LStrip(n) == IF StartsWithBang(n) THEN LStrip(Tail(n)) ELSE n

-----------------------------------------------------------------------------
(* Grouping components (sentry.grouping.component, outside this source tree) *)

Hashes == {<<"h1">>, <<"h2">>}

Component(contributes, hash) == [contributes |-> contributes, hint |-> None, hash |-> hash]

\* component.get_hash(): the hash of the contributing values, None for a component that does not contribute
GetHash(c) == IF c.contributes THEN c.hash ELSE None

\* component.update(contributes=..., hint=...)
ComponentUpdate(c, contributes, hint) == [c EXCEPT !.contributes = contributes, !.hint = hint]

\* "ignored because hash matches %s variant" % duplicate_of
IgnoredHint(duplicate_of) == <<"ignored because hash matches ">> \o duplicate_of \o <<" variant">>

-----------------------------------------------------------------------------
(* Strategy *)

\* id.split(":", 1)[0]
RECURSIVE BeforeColon(_)
BeforeColon(id) ==
    IF Len(id) = 0 \/ Head(id) = ":" THEN <<>> ELSE <<Head(id)>> \o BeforeColon(Tail(id))

\* Strategy.__init__
NewStrategy(id, name, interface, score, func) ==
    [id |-> id, strategy_class |-> BeforeColon(id), name |-> name, interface_name |-> interface,
     score |-> score, func |-> func, variant_processor_func |-> None]

\* Strategy.variant_processor
WithVariantProcessor(strategy, func) == [strategy EXCEPT !.variant_processor_func = func]

\* a variant processor that keeps the contributing variants; c is [variants, heap]
OnlyContributing(variants, heap) == SelectSeq(variants, LAMBDA e : heap[e.v].contributes)

\* Strategy._invoke on a variant processor
ProcessorResultDropped(func, variants, heap) == variants

InvokeProcessor(func, variants, heap) ==
    IF func = <<"only_contributing">> THEN OnlyContributing(variants, heap) ELSE variants

\* what one invocation of a strategy function does: it returns the mapping `value`
\* over freshly built components `heap`, returns something that is no dict, or raises
Returns(od, heap) == [kind |-> "dict", value |-> od, heap |-> heap]
NotADict == [kind |-> "other", value |-> <<>>, heap |-> <<>>]
Raises == [kind |-> "raise", value |-> <<>>, heap |-> <<>>]

\* event.interfaces.get(self.interface_name) is not None; event is the set of interfaces it has
AnyInterface(event, interface_name) == TRUE

HasInterface(event, interface_name) == interface_name \in event

\* "if variant is not None": only then is context["variant"] written in the new scope
AlwaysPassed(variant) == TRUE

VariantPassed(variant) == variant # None

\* Strategy.get_grouping_component; c is [stack, ic], out is what the function does if invoked
GetGroupingComponent(strategy, event, c, variant, out) ==
    IF ~HasInterface(event, strategy.interface_name)
    THEN [exc |-> NoExc, value |-> None, isNone |-> TRUE, isDict |-> FALSE, heap |-> <<>>,
          stack |-> c.stack, ic |-> c.ic, funcCalls |-> <<>>]
    ELSE LET entered == [c EXCEPT !.stack = CtxPush(c.stack)]
             inside == IF VariantPassed(variant) THEN CtxSet(entered, "variant", variant) ELSE entered
             call == [variant |-> CtxGet(inside.stack, inside.ic, "variant").value,
                      depth |-> Len(inside.stack)]
         IN [exc |-> IF out.kind = "raise" THEN "Error" ELSE NoExc,
             value |-> out.value,
             isNone |-> FALSE,
             isDict |-> out.kind = "dict",
             heap |-> out.heap,
             stack |-> CtxExit(inside.stack, out.kind = "raise"),
             ic |-> inside.ic,
             funcCalls |-> <<call>>]

\* the bookkeeping of one contributing variant (the if/else on is_priority);
\* acc is [final, priority, non_priority]
TrackPriorityToo(acc, is_priority, hash_value, variant_name) ==
    IF is_priority
    THEN [acc EXCEPT !.priority = DictPut(@, hash_value, variant_name),
                     !.non_priority = Append(@, variant_name)]
    ELSE [acc EXCEPT !.non_priority = Append(@, variant_name)]

TrackEveryHash(acc, is_priority, hash_value, variant_name) ==
    IF is_priority
    THEN [acc EXCEPT !.priority = DictPut(@, hash_value, variant_name)]
    ELSE [acc EXCEPT !.priority = DictPut(@, hash_value, variant_name),
                     !.non_priority = Append(@, variant_name)]

TrackFirstWins(acc, is_priority, hash_value, variant_name) ==
    IF is_priority
    THEN IF hash_value \in DOMAIN acc.priority THEN acc
         ELSE [acc EXCEPT !.priority = DictPut(@, hash_value, variant_name)]
    ELSE [acc EXCEPT !.non_priority = Append(@, variant_name)]

Track(acc, is_priority, hash_value, variant_name) ==
    IF is_priority
    THEN [acc EXCEPT !.priority = DictPut(@, hash_value, variant_name)]
    ELSE [acc EXCEPT !.non_priority = Append(@, variant_name)]

\* "if component.contributes": only then is the variant tracked for the dedup
ContributesOrNot(component) == TRUE

Contributes(component) == component.contributes

\* final_components_by_variant[variant_name] = component
StoreFirst(final, variant_name, component) ==
    IF variant_name \in ODKeys(final) THEN final ELSE ODSet(final, variant_name, component)

StoreVariant(final, variant_name, component) == ODSet(final, variant_name, component)

\* the first loop of get_grouping_components, from entry i on
RECURSIVE CollectVariants(_, _, _, _)
CollectVariants(od, heap, i, acc) ==
    IF i > Len(od) THEN acc
    ELSE LET is_priority == StartsWithBang(od[i].k)
             variant_name == LStrip(od[i].k)
             component == heap[od[i].v]
             tracked == IF Contributes(component)
                        THEN Track(acc, is_priority, GetHash(component), variant_name)
                        ELSE acc
         IN CollectVariants(od, heap, i + 1,
                            [tracked EXCEPT !.final = StoreVariant(@, variant_name, od[i].v)])

\* the second loop, from entry i of non_priority on: the heap after it
RECURSIVE MarkDuplicates(_, _, _)
MarkDuplicates(acc, heap, i) ==
    IF i > Len(acc.non_priority) THEN heap
    ELSE LET ref == ODGet(acc.final, acc.non_priority[i])
             hash_value == GetHash(heap[ref])
             duplicate_of == IF hash_value \in DOMAIN acc.priority
                             THEN acc.priority[hash_value] ELSE None
         IN MarkDuplicates(acc,
                           IF duplicate_of # None
                           THEN [heap EXCEPT ![ref] = ComponentUpdate(@, FALSE, IgnoredHint(duplicate_of))]
                           ELSE heap,
                           i + 1)

Dedup(acc, heap) == MarkDuplicates(acc, heap, 1)

\* Strategy.get_grouping_components
GetGroupingComponents(strategy, event, c, out) ==
    LET got == GetGroupingComponent(strategy, event, c, None, out) IN
    IF got.isNone
    THEN [exc |-> NoExc, value |-> <<>>, heap |-> <<>>, stack |-> got.stack, ic |-> got.ic,
          funcCalls |-> got.funcCalls, procCalls |-> <<>>]
    ELSE IF got.exc # NoExc
    THEN [exc |-> got.exc, value |-> None, heap |-> got.heap, stack |-> got.stack, ic |-> got.ic,
          funcCalls |-> got.funcCalls, procCalls |-> <<>>]
    ELSE IF ~got.isDict
    THEN [exc |-> "AssertionError", value |-> None, heap |-> got.heap, stack |-> got.stack,
          ic |-> got.ic, funcCalls |-> got.funcCalls, procCalls |-> <<>>]
    ELSE LET acc == CollectVariants(got.value, got.heap, 1,
                        [final |-> <<>>, priority |-> EmptyDict, non_priority |-> <<>>])
             heap == Dedup(acc, got.heap)
             processed == strategy.variant_processor_func # None
         IN [exc |-> NoExc,
             value |-> IF processed
                       THEN InvokeProcessor(strategy.variant_processor_func, acc.final, heap)
                       ELSE acc.final,
             heap |-> heap, stack |-> got.stack, ic |-> got.ic,
             funcCalls |-> got.funcCalls,
             procCalls |-> IF processed THEN <<acc.final>> ELSE <<>>]

-----------------------------------------------------------------------------
(* produces_variants / call_with_variants *)

Range(seq) == {seq[i] : i \in DOMAIN seq}

\* the assertion on a requested variant:
\* context["variant"] in variants_to_produce or "!" + context["variant"] in variants_to_produce
DeclaresExactly(variants_to_produce, variant) == variant \in Range(variants_to_produce)

Declares(variants_to_produce, variant) ==
    \/ variant \in Range(variants_to_produce)
    \/ <<Bang>> \o variant \in Range(variants_to_produce)

\* rv[variant_name] = component
AssembleStripped(rv, variant_name, component) == ODSet(rv, LStrip(variant_name), component)

Assemble(rv, variant_name, component) == ODSet(rv, variant_name, component)

\* what a call of call_with_variants ends with
Ended(exc, value, c, calls) ==
    [exc |-> exc, value |-> value, stack |-> c.stack, ic |-> c.ic, calls |-> calls]

\* the loop over variants_to_produce, from entry i on; outs[i] is what f does in its
\* i-th invocation, rv the mapping assembled so far, calls what f was invoked with
RECURSIVE ProduceVariants(_, _, _, _, _, _)
ProduceVariants(variants_to_produce, c, outs, i, rv, calls) ==
    IF i > Len(variants_to_produce) THEN Ended(NoExc, rv, c, calls)
    ELSE LET variant_name == variants_to_produce[i]
             entered == [c EXCEPT !.stack = CtxPush(c.stack)]
             inside == CtxSet(entered, "variant", LStrip(variant_name))
             call == [variant |-> CtxGet(inside.stack, inside.ic, "variant").value,
                      depth |-> Len(inside.stack),
                      frame |-> FrameDict(inside.stack[Len(inside.stack)], inside.ic),
                      out |-> outs[i]]
             rv_variants == outs[i].value
             raised == \/ outs[i].kind = "raise"
                       \/ Len(rv_variants) # 1
                       \/ LStrip(variant_name) \notin ODKeys(rv_variants)
             left == [inside EXCEPT !.stack = CtxExit(inside.stack, raised)]
         IN IF outs[i].kind = "raise"
            THEN Ended("Error", <<>>, left, Append(calls, call))
            ELSE IF Len(rv_variants) # 1
            THEN Ended("AssertionError", <<>>, left, Append(calls, call))
            ELSE IF LStrip(variant_name) \notin ODKeys(rv_variants)
            THEN Ended("KeyError", <<>>, left, Append(calls, call))
            ELSE ProduceVariants(variants_to_produce, left, outs, i + 1,
                                 Assemble(rv, variant_name, ODGet(rv_variants, LStrip(variant_name))),
                                 Append(calls, call))

\* call_with_variants(f, variants_to_produce, context=c)
CallWithVariants(variants_to_produce, c, outs) ==
    LET variant == CtxGet(c.stack, c.ic, "variant") IN
    IF variant.exc # NoExc THEN Ended(variant.exc, <<>>, c, <<>>)
    ELSE IF variant.value # None
    THEN IF ~Declares(variants_to_produce, variant.value)
         THEN Ended("AssertionError", <<>>, c, <<>>)
         ELSE Ended(IF outs[1].kind = "raise" THEN "Error" ELSE NoExc, outs[1].value, c,
                    <<[variant |-> variant.value, depth |-> Len(c.stack),
                       frame |-> FrameDict(c.stack[Len(c.stack)], c.ic), out |-> outs[1]]>>)
    ELSE ProduceVariants(variants_to_produce, c, outs, 1, <<>>, <<>>)

-----------------------------------------------------------------------------
(* The registry *)

\* the decorator of strategy(ids, interface, score) applied to f, from id i on
RECURSIVE RegisterFromKeepingFirst(_, _, _, _, _, _)
RegisterFromKeepingFirst(registry, ids, interface, score, f, i) ==
    IF i > Len(ids) THEN registry
    ELSE RegisterFromKeepingFirst(
             IF ids[i] \in ODKeys(registry) THEN registry
             ELSE ODSet(registry, ids[i], NewStrategy(ids[i], interface, interface, score, f)),
             ids, interface, score, f, i + 1)

RECURSIVE RegisterFrom(_, _, _, _, _, _)
RegisterFrom(registry, ids, interface, score, f, i) ==
    IF i > Len(ids) THEN registry
    ELSE RegisterFrom(ODSet(registry, ids[i], NewStrategy(ids[i], interface, interface, score, f)),
                      ids, interface, score, f, i + 1)

\* strategy(ids, interface, score)(f): TypeError when no id is given
Register(registry, ids, interface, score, f) ==
    IF Len(ids) = 0 THEN [exc |-> "TypeError", registry |-> registry]
    ELSE [exc |-> NoExc, registry |-> RegisterFrom(registry, ids, interface, score, f, 1)]

\* lookup_strategy
LookupStrategy(registry, strategy_id) ==
    IF strategy_id \in ODKeys(registry)
    THEN [exc |-> NoExc, value |-> ODGet(registry, strategy_id)]
    ELSE [exc |-> "LookupError", value |-> None]

-----------------------------------------------------------------------------
(* create_strategy_configuration *)

RISK_LEVEL_LOW == 0

\* the class attributes of StrategyConfiguration that a new configuration sets
\* (changelog and __name__, documentation only, are left out)
Configuration(id, strategies, delegates, initial, enhancements_base, fingerprinting_bases, risk, hidden) ==
    [id |-> id, strategies |-> strategies, delegates |-> delegates, initial_context |-> initial,
     enhancements_base |-> enhancements_base, fingerprinting_bases |-> fingerprinting_bases,
     risk |-> risk, hidden |-> hidden]

\* by_class: strategy_class -> the ids of the inherited strategies of that class
ByClassSharedList(strategies) ==
    [class \in {strategies[i].v.strategy_class : i \in DOMAIN strategies} |->
        [i \in DOMAIN strategies |-> strategies[i].k]]

ByClass(strategies) ==
    [class \in {strategies[i].v.strategy_class : i \in DOMAIN strategies} |->
        SelectSeq([i \in DOMAIN strategies |-> strategies[i].k],
                  LAMBDA id : ODGet(strategies, id).strategy_class = class)]

\* for old_id in by_class.get(strategy.strategy_class) or (): strategies.pop(old_id, None)
KeepOld(strategies, by_class, class) == strategies

RECURSIVE PopAll(_, _, _)
PopAll(strategies, old_ids, i) ==
    IF i > Len(old_ids) THEN strategies ELSE PopAll(ODPop(strategies, old_ids[i]), old_ids, i + 1)

RemoveOld(strategies, by_class, class) ==
    IF class \in DOMAIN by_class THEN PopAll(strategies, by_class[class], 1) ELSE strategies

\* if strategy.score is None
NeverUnscored(strategy) == FALSE

Unscored(strategy) == strategy.score.none

\* the loop over the requested strategies, from entry i on
RECURSIVE AddStrategies(_, _, _, _, _)
AddStrategies(registry, requested, by_class, strategies, i) ==
    IF i > Len(requested) THEN [exc |-> NoExc, strategies |-> strategies]
    ELSE LET found == LookupStrategy(registry, requested[i]) IN
         IF found.exc # NoExc THEN [exc |-> found.exc, strategies |-> strategies]
         ELSE IF Unscored(found.value) THEN [exc |-> "RuntimeError", strategies |-> strategies]
         ELSE AddStrategies(registry, requested, by_class,
                            ODSet(RemoveOld(strategies, by_class, found.value.strategy_class),
                                  requested[i], found.value),
                            i + 1)

\* if strategy.interface_name in new_delegates
NeverClaimed(new_delegates, interface_name) == FALSE

AlreadyClaimed(new_delegates, interface_name) == interface_name \in new_delegates

\* the loop over the requested delegates, from entry i on
RECURSIVE AddDelegates(_, _, _, _, _)
AddDelegates(registry, requested, new_delegates, delegates, i) ==
    IF i > Len(requested) THEN [exc |-> NoExc, delegates |-> delegates]
    ELSE LET found == LookupStrategy(registry, requested[i]) IN
         IF found.exc # NoExc THEN [exc |-> found.exc, delegates |-> delegates]
         ELSE IF AlreadyClaimed(new_delegates, found.value.interface_name)
         THEN [exc |-> "RuntimeError", delegates |-> delegates]
         ELSE AddDelegates(registry, requested, new_delegates \cup {found.value.interface_name},
                           ODSet(delegates, found.value.interface_name, found.value),
                           i + 1)

\* x if x is truthy (neither None nor empty), else y
IfGiven(x, y) == IF x # None THEN x ELSE y

IfTruthy(x, y) == IF x # None /\ Len(x) > 0 THEN x ELSE y

\* dict(base.strategies), dict(base.delegates), dict(base.initial_context): a dict of
\* its own for the new configuration, so that the base does not see what is written to it
SharedWithBase(d) == [d |-> d, shared |-> TRUE]

CopyOfBase(d) == [d |-> d, shared |-> FALSE]

\* the base once the new configuration's dict, inherited from `was`, has become `now`
SeenByBase(was, now) == IF CopyOfBase(was).shared THEN now ELSE was

\* create_strategy_configuration; base is <<>> for None or <<the base>>;
\* a strategies, delegates or initial_context argument of None acts as an empty one;
\* the result names what was raised, the configuration returned and the base afterwards
CreateStrategyConfiguration(registry, args, base) ==
    LET inherited ==
            IF Len(base) > 0
            THEN Configuration(args.id, CopyOfBase(base[1].strategies).d, CopyOfBase(base[1].delegates).d,
                               CopyOfBase(base[1].initial_context).d,
                               base[1].enhancements_base, base[1].fingerprinting_bases,
                               IF args.risk.none THEN RISK_LEVEL_LOW ELSE args.risk.n, args.hidden)
            ELSE Configuration(args.id, <<>>, <<>>, EmptyDict, None, None,
                               IF args.risk.none THEN RISK_LEVEL_LOW ELSE args.risk.n, args.hidden)
        by_class == ByClass(inherited.strategies)
        added == AddStrategies(registry, args.strategies, by_class, inherited.strategies, 1)
        delegated == AddDelegates(registry, args.delegates, {}, inherited.delegates, 1)
        updated == DictUpdate(inherited.initial_context, args.initial_context)
        after(strategies, delegates, initial) ==
            IF Len(base) = 0 THEN base
            ELSE <<[base[1] EXCEPT !.strategies = SeenByBase(@, strategies),
                                   !.delegates = SeenByBase(@, delegates),
                                   !.initial_context = SeenByBase(@, initial)]>>
    IN IF added.exc # NoExc
       THEN [exc |-> added.exc, value |-> <<>>,
             base |-> after(added.strategies, inherited.delegates, inherited.initial_context)]
       ELSE IF delegated.exc # NoExc
       THEN [exc |-> delegated.exc, value |-> <<>>,
             base |-> after(added.strategies, delegated.delegates, inherited.initial_context)]
       ELSE [exc |-> NoExc,
             value |-> <<[inherited EXCEPT
                            !.strategies = added.strategies,
                            !.delegates = delegated.delegates,
                            !.initial_context = updated,
                            !.enhancements_base = IfTruthy(args.enhancements_base, @),
                            !.fingerprinting_bases = IfTruthy(args.fingerprinting_bases, @)]>>,
             base |-> after(added.strategies, delegated.delegates, updated)]

-----------------------------------------------------------------------------
(* One call of Strategy.get_grouping_components: SpecStrategy *)

Interfaces == {"exception", "stacktrace"}

\* the names a strategy function may give its variants
VariantNames == {<<"a">>, <<"b">>, <<Bang, "a">>, <<Bang, Bang, "s">>}

\* the key sequences of a dict of n entries
KeySeqs(n) == {ks \in [1..n -> VariantNames] : \A i, j \in 1..n : i # j => ks[i] # ks[j]}

\* the ways n entries share component objects, each object numbered by its first use
RefSeqs(n) == {rs \in [1..n -> 1..n] :
                  \A i \in 1..n : \A r \in 1..(rs[i] - 1) : \E j \in 1..(i - 1) : rs[j] = r}

ComponentValues == {Component(c, h) : c \in BOOLEAN, h \in Hashes}

Used(rs) == {rs[i] : i \in DOMAIN rs}

\* the mapping with keys ks over the objects rs
MappingOf(ks, rs) == [i \in DOMAIN ks |-> [k |-> ks[i], v |-> rs[i]]]

\* the strategies under test: with and without a variant processor
TestStrategy == NewStrategy(<<"f", ":", "1">>, "exception", "exception", Score(1), "f")

TestStrategies == {TestStrategy, WithVariantProcessor(TestStrategy, <<"only_contributing">>)}

TestEvents == {{}, {"stacktrace"}, {"exception"}}

\* the context is fresh, or an enclosing scope has picked a variant
InitStrategy ==
    /\ initial_context = EmptyDict
    /\ \/ _stack = CtxInit(initial_context).stack
       \/ _stack = CtxSet([stack |-> CtxPush(CtxInit(initial_context).stack), ic |-> initial_context],
                          "variant", <<"s">>).stack
    /\ scopes = <<>>
    /\ components = <<>>
    /\ STRATEGIES = <<>>
    /\ configs = <<>>
    /\ registered = <<>>
    /\ ret = [op |-> "init"]

\* strategy.get_grouping_components(event, context)
CallGetGroupingComponents(strategy, event, out) ==
    LET r == GetGroupingComponents(strategy, event, [stack |-> _stack, ic |-> initial_context], out) IN
    /\ _stack' = r.stack
    /\ initial_context' = r.ic
    /\ components' = r.heap
    /\ ret' = [op |-> "get_grouping_components", strategy |-> strategy, event |-> event,
               depth |-> Len(_stack),
               variantAtCall |-> CtxGet(_stack, initial_context, "variant").value,
               invoked |-> Len(r.funcCalls) > 0,
               returned |-> IF Len(r.funcCalls) > 0 /\ out.kind = "dict" THEN out.value ELSE <<>>,
               before |-> IF Len(r.funcCalls) > 0 /\ out.kind = "dict" THEN out.heap ELSE <<>>,
               deduped |-> r.exc = NoExc /\ Len(r.funcCalls) > 0,
               exc |-> r.exc, value |-> r.value,
               funcCalls |-> r.funcCalls, procCalls |-> r.procCalls]
    /\ UNCHANGED <<scopes, STRATEGIES, configs, registered>>

\* strategy.get_grouping_component(event, context, variant)
CallGetGroupingComponent(strategy, event, variant, out) ==
    LET r == GetGroupingComponent(strategy, event, [stack |-> _stack, ic |-> initial_context], variant, out) IN
    /\ _stack' = r.stack
    /\ initial_context' = r.ic
    /\ components' = r.heap
    /\ ret' = [op |-> "get_grouping_component", strategy |-> strategy, event |-> event,
               variant |-> variant, invoked |-> Len(r.funcCalls) > 0,
               exc |-> r.exc, value |-> r.value, isNone |-> r.isNone,
               funcCalls |-> r.funcCalls, procCalls |-> <<>>]
    /\ UNCHANGED <<scopes, STRATEGIES, configs, registered>>

\* the function returns a mapping of up to MaxVariants entries
CallReturningMapping(strategy, event) ==
    \E n \in 0..MaxVariants :
        \E ks \in KeySeqs(n), rs \in RefSeqs(n) :
            \E heap \in [Used(rs) -> ComponentValues] :
                CallGetGroupingComponents(strategy, event, Returns(MappingOf(ks, rs), heap))

NextStrategy ==
    /\ ret.op = "init"
    /\ \/ \E strategy \in TestStrategies, event \in TestEvents :
              /\ strategy.interface_name \in event
              /\ CallReturningMapping(strategy, event)
       \/ \E strategy \in TestStrategies, event \in TestEvents :
              \E out \in IF strategy.interface_name \in event THEN {NotADict, Raises} ELSE {Raises} :
                  CallGetGroupingComponents(strategy, event, out)
       \/ \E strategy \in TestStrategies, event \in TestEvents, variant \in {None, <<"a">>} :
              \E out \in IF strategy.interface_name \in event
                         THEN {NotADict, Raises, Returns(<<[k |-> <<"a">>, v |-> 1]>>, <<Component(TRUE, <<"h1">>)>>)}
                         ELSE {Raises} :
                  CallGetGroupingComponent(strategy, event, variant, out)

SpecStrategy == InitStrategy /\ [][NextStrategy]_vars

-----------------------------------------------------------------------------
(* Claims about get_grouping_components *)

\* a call that got a mapping from the strategy function and deduplicated it
Deduped == ret.op = "get_grouping_components" /\ ret.deduped

\* the mapping the dedup leaves: returned as it is, or handed to the variant processor
FinalMap == IF Len(ret.procCalls) > 0 THEN ret.procCalls[1] ELSE ret.value

Entries == 1..Len(ret.returned)

IsPriority(i) == StartsWithBang(ret.returned[i].k)

\* entry i contributed as the function returned it
Contributed(i) == ret.before[ret.returned[i].v].contributes

HashOf(i) == ret.before[ret.returned[i].v].hash

\* the component of entry i before and after the call
Was(i) == ret.before[ret.returned[i].v]
Now(i) == components[ret.returned[i].v]

\* the prefix-stripped names are pairwise distinct
StrippedNamesDistinct ==
    \A i, j \in Entries : i # j => LStrip(ret.returned[i].k) # LStrip(ret.returned[j].k)

\* entry i's component object is under no non-priority name
NotSharedWithNonPriority(i) ==
    \A j \in Entries : ~IsPriority(j) => ret.returned[j].v # ret.returned[i].v

\* the last contributing priority entry with entry i's hash
LastPriorityWithHash(i) ==
    Max({q \in Entries : IsPriority(q) /\ Contributed(q) /\ HashOf(q) = HashOf(i)})

\* the claim's case: priority p and non-priority n both contribute with equal hashes
PriorityDuplicate(p, n) ==
    /\ IsPriority(p) /\ ~IsPriority(n)
    /\ Contributed(p) /\ Contributed(n)
    /\ HashOf(p) = HashOf(n)

\* C1 as stated: whenever a priority variant "!P" and a non-priority variant N
\* both contribute with equal hashes, P still contributes and N is switched
\* off with the hint "ignored because hash matches P variant".
C1_Original ==
    Deduped =>
        \A p, n \in Entries :
            PriorityDuplicate(p, n) =>
                /\ Now(p).contributes
                /\ ~Now(n).contributes
                /\ Now(n).hint = IgnoredHint(LStrip(ret.returned[p].k))

\* C1 amended: when the prefix-stripped names are pairwise distinct and P's
\* component is no non-priority variant's component, the mapping the dedup
\* leaves holds P's component under P, still contributing, and N's under N,
\* switched off with the hint naming the last contributing priority variant of
\* that hash (every leading "!" stripped), which is P when P is the only one.
C1_PriorityDedup ==
    Deduped =>
        \A p, n \in Entries :
            (PriorityDuplicate(p, n) /\ StrippedNamesDistinct /\ NotSharedWithNonPriority(p)) =>
                /\ ODGet(FinalMap, LStrip(ret.returned[p].k)) = ret.returned[p].v
                /\ ODGet(FinalMap, ret.returned[n].k) = ret.returned[n].v
                /\ Now(p) = Was(p)
                /\ ~Now(n).contributes
                /\ Now(n).hint = IgnoredHint(LStrip(ret.returned[LastPriorityWithHash(n)].k))

\* C1 witness: two priority variants of one hash precede a non-priority duplicate,
\* which carries the hint of the later one
C1_Witness ==
    /\ Deduped
    /\ StrippedNamesDistinct
    /\ \E p, q, n \in Entries :
          /\ p < q /\ IsPriority(q) /\ Contributed(q) /\ HashOf(q) = HashOf(p)
          /\ PriorityDuplicate(p, n)
          /\ NotSharedWithNonPriority(p)
          /\ Now(n).hint = IgnoredHint(LStrip(ret.returned[q].k))

\* C2 as stated: for every input mapping, a contributing priority variant is
\* never switched off by the dedup.
C2_Original ==
    Deduped => \A p \in Entries : (IsPriority(p) /\ Contributed(p)) => Now(p).contributes

\* C2 amended: for every input mapping whose prefix-stripped names are pairwise
\* distinct and in which no priority variant's component is also a non-priority
\* variant's component, a contributing priority variant is left as it was
\* (contributing, hint untouched) and is in the mapping under its stripped name.
C2_OneDirectional ==
    Deduped =>
        \A p \in Entries :
            (IsPriority(p) /\ Contributed(p) /\ StrippedNamesDistinct /\ NotSharedWithNonPriority(p)) =>
                /\ Now(p) = Was(p)
                /\ ODGet(FinalMap, LStrip(ret.returned[p].k)) = ret.returned[p].v

\* C2 witness: a contributing priority variant shares its hash with a contributing
\* non-priority one, which is switched off while the priority one is not
C2_Witness ==
    /\ Deduped
    /\ StrippedNamesDistinct
    /\ \E p, n \in Entries :
          /\ PriorityDuplicate(p, n)
          /\ NotSharedWithNonPriority(p)
          /\ Now(p).contributes
          /\ ~Now(n).contributes

InterfaceAbsent ==
    /\ ret.op \in {"get_grouping_component", "get_grouping_components"}
    /\ ret.strategy.interface_name \notin ret.event

\* C4: without the interface, get_grouping_component returns None and
\* get_grouping_components returns {}; nothing is raised, and neither the strategy
\* function nor the variant processor is invoked.
C4_AbsentInterfaceIsEmpty ==
    InterfaceAbsent =>
        /\ ret.exc = NoExc
        /\ ret.funcCalls = <<>>
        /\ ret.procCalls = <<>>
        /\ ret.op = "get_grouping_component" => ret.isNone
        /\ ret.op = "get_grouping_components" => ret.value = <<>>

\* C4 witness: get_grouping_components of a strategy with a variant processor on an
\* event that has another interface only
C4_Witness ==
    /\ InterfaceAbsent
    /\ ret.op = "get_grouping_components"
    /\ ret.strategy.variant_processor_func # None
    /\ ret.event # {}


\* C21 as stated: get_grouping_components invokes the strategy function exactly once
\* and context["variant"] is None during that invocation, whatever the context held
\* when get_grouping_components was called
C21_Original ==
    (ret.op = "get_grouping_components" /\ ~InterfaceAbsent)
        => /\ Len(ret.funcCalls) = 1
           /\ ret.funcCalls[1].variant = None

\* C21: when the event has the strategy's interface, get_grouping_components invokes
\* the strategy function exactly once, in a scope pushed for the invocation in which
\* "variant" is not written: the function reads the value context["variant"] had when
\* get_grouping_components was called, None on a context where nothing set it since
\* construction and the enclosing scope's value otherwise
C21_VariantLeftAsFound ==
    (ret.op = "get_grouping_components" /\ ~InterfaceAbsent)
        => /\ Len(ret.funcCalls) = 1
           /\ ret.funcCalls[1].depth = ret.depth + 1
           /\ ret.funcCalls[1].variant = ret.variantAtCall
           /\ (ret.depth = Len(CtxInit(initial_context).stack) => ret.funcCalls[1].variant = None)

\* C21 witness: a call made inside an enclosing scope that set "variant" to "s", in
\* which the function was invoked once and read "s"
C21_Witness ==
    /\ ret.op = "get_grouping_components"
    /\ ret.variantAtCall = <<"s">>
    /\ Len(ret.funcCalls) = 1
    /\ ret.funcCalls[1].variant = <<"s">>


\* the prefix-stripped names of the returned mapping
StrippedNames == {LStrip(ret.returned[i].k) : i \in Entries}

\* the last entry whose prefix-stripped name is name
LastNamed(name) == Max({j \in Entries : LStrip(ret.returned[j].k) = name})

\* od has every prefix-stripped name as a key, each over the component of the last
\* entry of that name
KeyedByStrippedNames(od) ==
    /\ ODKeys(od) = StrippedNames
    /\ \A name \in StrippedNames : ODGet(od, name) = ret.returned[LastNamed(name)].v

\* C23: when the function returned a mapping and a variant processor is registered,
\* get_grouping_components invokes the processor exactly once, after the dedup (it
\* sees the components as the dedup left them), with the whole mapping keyed by the
\* prefix-stripped names, and returns what the processor returns; without a
\* processor it returns the deduped mapping itself. No processor is invoked when the
\* function was not invoked, raised or returned no mapping.
C23_ProcessorOnceAfterDedup ==
    ret.op = "get_grouping_components" =>
        IF ~ret.deduped THEN ret.procCalls = <<>>
        ELSE IF ret.strategy.variant_processor_func # None
        THEN /\ Len(ret.procCalls) = 1
             /\ KeyedByStrippedNames(ret.procCalls[1])
             /\ ret.value = OnlyContributing(ret.procCalls[1], components)
        ELSE /\ ret.procCalls = <<>>
             /\ KeyedByStrippedNames(ret.value)

\* C23 witness: the processor that keeps contributing variants was invoked once and
\* dropped a non-priority variant that contributed until the dedup switched it off
C23_Witness ==
    /\ Deduped
    /\ Len(ret.procCalls) = 1
    /\ \E n \in Entries :
          /\ ~IsPriority(n) /\ Contributed(n) /\ ~Now(n).contributes
          /\ LStrip(ret.returned[n].k) \in ODKeys(ret.procCalls[1])
          /\ LStrip(ret.returned[n].k) \notin ODKeys(ret.value)


\* the returned mapping has both "!X" and "X" as keys, at entries i and j
Collide(i, j) ==
    /\ i # j
    /\ ret.returned[i].k = <<Bang>> \o ret.returned[j].k
    /\ ~StartsWithBang(ret.returned[j].k)

\* C29: the mapping the first loop builds (the result before the variant processor)
\* has exactly one entry per distinct prefix-stripped name, holding the component
\* of the last entry of that name in iteration order; when the returned mapping has
\* both "!X" and "X" the result has the single entry "X" over the later of the two
\* components; and the result has as many entries as the returned mapping exactly
\* when the prefix-stripped names are pairwise distinct.
C29_OneEntryPerStrippedName ==
    Deduped =>
        /\ KeyedByStrippedNames(FinalMap)
        /\ Len(FinalMap) = Cardinality(StrippedNames)
        /\ \A i, j \in Entries :
              Collide(i, j) =>
                  /\ Cardinality({e \in 1..Len(FinalMap) : FinalMap[e].k = ret.returned[j].k}) = 1
                  /\ ODGet(FinalMap, ret.returned[j].k) = ret.returned[Max({i, j})].v
        /\ (Len(FinalMap) = Len(ret.returned)) <=> StrippedNamesDistinct

\* C29 witness: the function returned "a" before "!a" over two component objects,
\* and the result holds the component of "!a" under "a"
C29_Witness ==
    /\ Deduped
    /\ \E i, j \in Entries :
          /\ Collide(i, j) /\ j < i
          /\ ret.returned[i].v # ret.returned[j].v
          /\ ODGet(FinalMap, ret.returned[j].k) = ret.returned[i].v
          /\ Len(FinalMap) < Len(ret.returned)


\* the claim's case: priority p before priority q, non-priority n, all three
\* contributing with one hash
TwoPriorityDuplicates(p, q, n) ==
    /\ p < q
    /\ IsPriority(q) /\ Contributed(q) /\ HashOf(q) = HashOf(p)
    /\ PriorityDuplicate(p, n)

\* C26 as stated: whenever two contributing priority variants have the same hash, a
\* contributing non-priority variant of that hash is switched off with a hint naming
\* the later priority variant, and both priority variants still contribute
C26_Original ==
    Deduped =>
        \A p, q, n \in Entries :
            (TwoPriorityDuplicates(p, q, n) /\ q = LastPriorityWithHash(n)) =>
                /\ ~Now(n).contributes
                /\ Now(n).hint = IgnoredHint(LStrip(ret.returned[q].k))
                /\ Now(p).contributes
                /\ Now(q).contributes

\* C26 amended: the same, for mappings whose prefix-stripped names are pairwise
\* distinct and in which neither priority variant's component object is also under
\* a non-priority name: the later priority variant is the one recorded for the hash,
\* the non-priority variant is switched off naming it, and both priority variants
\* are left as the function returned them
C26_LastWriteWins ==
    Deduped =>
        \A p, q, n \in Entries :
            ( /\ TwoPriorityDuplicates(p, q, n) /\ q = LastPriorityWithHash(n)
              /\ StrippedNamesDistinct
              /\ NotSharedWithNonPriority(p) /\ NotSharedWithNonPriority(q) ) =>
                /\ ~Now(n).contributes
                /\ Now(n).hint = IgnoredHint(LStrip(ret.returned[q].k))
                /\ Now(n).hint # IgnoredHint(LStrip(ret.returned[p].k))
                /\ Now(p) = Was(p)
                /\ Now(q) = Was(q)

\* C26 witness: a non-priority variant sits between two priority variants of its
\* hash, all on component objects of their own; it names the later one and both
\* priority variants contribute
C26_Witness ==
    /\ Deduped
    /\ StrippedNamesDistinct
    /\ \E p, q, n \in Entries :
          /\ TwoPriorityDuplicates(p, q, n)
          /\ p < n /\ n < q
          /\ NotSharedWithNonPriority(p) /\ NotSharedWithNonPriority(q)
          /\ Now(n).hint = IgnoredHint(LStrip(ret.returned[q].k))
          /\ Now(p).contributes /\ Now(q).contributes


\* the claim's case: non-priority n contributes, priority p does not, and their
\* hashes are equal
SilentPriorityTwin(p, n) ==
    /\ IsPriority(p) /\ ~Contributed(p)
    /\ ~IsPriority(n) /\ Contributed(n)
    /\ HashOf(p) = HashOf(n)

\* no contributing priority variant has entry n's hash
NoContributingPriorityTwin(n) ==
    \A q \in Entries : (IsPriority(q) /\ Contributed(q)) => HashOf(q) # HashOf(n)

\* C30 as stated: a contributing non-priority variant whose hash equals that of a
\* priority variant that does not contribute stays contributing with its hint
\* unchanged, and a non-priority variant that does not contribute is never modified
C30_Original ==
    Deduped =>
        /\ \A p, n \in Entries : SilentPriorityTwin(p, n) => Now(n) = Was(n)
        /\ \A n \in Entries : (~IsPriority(n) /\ ~Contributed(n)) => Now(n) = Was(n)

\* C30 amended: a contributing non-priority variant whose hash equals that of a
\* priority variant that does not contribute, and of no priority variant that
\* contributes, stays contributing with its hint unchanged; a non-priority variant
\* that does not contribute is never modified by the dedup
C30_OnlyContributingPrioritySuppresses ==
    Deduped =>
        /\ \A p, n \in Entries :
              (SilentPriorityTwin(p, n) /\ NoContributingPriorityTwin(n)) => Now(n) = Was(n)
        /\ \A n \in Entries : (~IsPriority(n) /\ ~Contributed(n)) => Now(n) = Was(n)

\* C30 witness: a non-priority variant of the hash of a priority variant that does
\* not contribute is left contributing without a hint, in a call in which another
\* priority variant contributes with another hash
C30_Witness ==
    /\ Deduped
    /\ \E p, n, q \in Entries :
          /\ SilentPriorityTwin(p, n) /\ NoContributingPriorityTwin(n)
          /\ Now(n).contributes /\ Now(n).hint = None
          /\ IsPriority(q) /\ Contributed(q)

-----------------------------------------------------------------------------
(* One call of a produces_variants-wrapped function: SpecVariants *)

\* the names a decorator may declare
DeclaredNames == {<<"s">>, <<Bang, "s">>, <<"a">>, <<Bang, Bang, "a">>}

\* what the wrapped function may do in its n-th invocation: raise, or return a mapping
\* of none, one or two entries over components it has just built (numbered n, n + 1)
Mappings(n) ==
    {<<>>, <<[k |-> <<"s">>, v |-> n], [k |-> <<"a">>, v |-> n + 1]>>}
    \cup {<<[k |-> name, v |-> n]>> : name \in {<<"s">>, <<"a">>, <<Bang, "s">>}}

WrappedOutcomes(n) == {Raises} \cup {Returns(od, <<>>) : od \in Mappings(n)}

\* what it may do in n invocations
OutcomeSeqs(n) ==
    {outs \in [1..n -> UNION {WrappedOutcomes(i) : i \in 1..n}] :
        \A i \in 1..n : outs[i] \in WrappedOutcomes(i)}

\* the variant an enclosing scope may have picked
PickedVariants == {<<"s">>, <<"a">>, <<Bang, "s">>}

InitVariants ==
    /\ initial_context = EmptyDict
    /\ \/ _stack = CtxInit(initial_context).stack
       \/ \E variant \in PickedVariants :
              _stack = CtxSet([stack |-> CtxPush(CtxInit(initial_context).stack), ic |-> initial_context],
                              "variant", variant).stack
    /\ scopes = <<>>
    /\ components = <<>>
    /\ STRATEGIES = <<>>
    /\ configs = <<>>
    /\ registered = <<>>
    /\ ret = [op |-> "init"]

\* inner(interface, event=event, context=context) of produces_variants(variants_to_produce)
CallWrapped(variants_to_produce, outs) ==
    LET c == [stack |-> _stack, ic |-> initial_context]
        r == CallWithVariants(variants_to_produce, c, outs) IN
    /\ _stack' = r.stack
    /\ initial_context' = r.ic
    /\ ret' = [op |-> "call_with_variants", variants_to_produce |-> variants_to_produce,
               variant |-> CtxGet(_stack, initial_context, "variant").value,
               depth |-> Len(_stack), stack |-> _stack,
               exc |-> r.exc, value |-> r.value, calls |-> r.calls]
    /\ UNCHANGED <<scopes, components, STRATEGIES, configs, registered>>

NextVariants ==
    /\ ret.op = "init"
    /\ \E n \in 0..MaxDeclared :
           \E variants_to_produce \in [1..n -> DeclaredNames] :
               \E outs \in OutcomeSeqs(IF n = 0 THEN 1 ELSE n) :
                   CallWrapped(variants_to_produce, outs)

SpecVariants == InitVariants /\ [][NextVariants]_vars

-----------------------------------------------------------------------------
(* Claims about call_with_variants *)

Wrapped == ret.op = "call_with_variants"

\* what the i-th invocation of the function returned
ReturnedBy(i) == ret.calls[i].out.value

\* the i-th invocation returned one entry under the stripped i-th declared name
WellFormed(i) ==
    /\ ret.calls[i].out.kind = "dict"
    /\ Len(ReturnedBy(i)) = 1
    /\ ReturnedBy(i)[1].k = LStrip(ret.variants_to_produce[i])

\* C9: with a variant already picked, the function is invoked exactly once, in the
\* caller's scope (none is pushed), and its mapping is returned as it is; a variant
\* that is not declared, with or without the "!", raises without an invocation.
C9_PickedVariantPassthrough ==
    (Wrapped /\ ret.variant # None) =>
        IF \/ \E i \in DOMAIN ret.variants_to_produce : ret.variants_to_produce[i] = ret.variant
           \/ \E i \in DOMAIN ret.variants_to_produce : ret.variants_to_produce[i] = <<Bang>> \o ret.variant
        THEN /\ Len(ret.calls) = 1
             /\ ret.calls[1].depth = ret.depth
             /\ ret.calls[1].variant = ret.variant
             /\ _stack = ret.stack
             /\ ret.calls[1].out.kind = "dict" => (ret.exc = NoExc /\ ret.value = ReturnedBy(1))
             /\ ret.calls[1].out.kind = "raise" => ret.exc # NoExc
        ELSE /\ ret.exc = "AssertionError"
             /\ ret.calls = <<>>

\* C9 witness: variant "s" was picked and only "!s" is declared; the function's
\* two-entry mapping came back as it was
C9_Witness ==
    /\ Wrapped
    /\ ret.variant = <<"s">>
    /\ <<"s">> \notin Range(ret.variants_to_produce)
    /\ Len(ret.calls) = 1
    /\ ret.exc = NoExc
    /\ Len(ret.value) = 2

-----------------------------------------------------------------------------
(* Building configurations over a registry filled at import time: SpecConfig *)

F1 == <<"f", ":", "1">>
F2 == <<"f", ":", "2">>
G1 == <<"g", ":", "1">>
U1 == <<"u", ":", "1">>
Unregistered == <<"x">>

\* the strategy(...) decorations that ran at import
Registrations ==
    <<[ids |-> <<F1>>, interface |-> "exception", score |-> Score(1)],
      [ids |-> <<F2>>, interface |-> "exception", score |-> Score(2)],
      [ids |-> <<G1>>, interface |-> "stacktrace", score |-> Score(0)],
      [ids |-> <<U1>>, interface |-> "stacktrace", score |-> NoScore]>>

RECURSIVE RegisterAll(_, _, _)
RegisterAll(registry, calls, i) ==
    IF i > Len(calls) THEN registry
    ELSE RegisterAll(Register(registry, calls[i].ids, calls[i].interface, calls[i].score, "f").registry,
                     calls, i + 1)

\* the ids a configuration may ask for
RequestIds == {F1, F2, G1, U1, Unregistered}

\* the arguments of one call: ids for strategies and delegates, the rest left at its default
Requests ==
    UNION {UNION {{[id |-> <<"c">>, strategies |-> strategies, delegates |-> delegates,
                    risk |-> NoScore, hidden |-> FALSE, initial_context |-> EmptyDict,
                    enhancements_base |-> None, fingerprinting_bases |-> None] :
                      strategies \in [1..n -> RequestIds], delegates \in [1..m -> RequestIds]} :
                  m \in 0..(MaxRequested - n)} :
           n \in 0..MaxRequested}

\* the registry once the decorations have run
Imported == RegisterAll(<<>>, Registrations, 1)

\* the configurations one call without a base can build
Roots ==
    {r.value : r \in {c \in {CreateStrategyConfiguration(Imported, args, <<>>) : args \in Requests} :
                         c.exc = NoExc}}

\* the registry is filled, and a first configuration may have been built already
InitConfig ==
    /\ initial_context = EmptyDict
    /\ _stack = <<>>
    /\ scopes = <<>>
    /\ components = <<>>
    /\ STRATEGIES = Imported
    /\ configs \in {<<>>} \cup Roots
    /\ registered = <<>>
    /\ ret = [op |-> "init"]

\* create_strategy_configuration(..., base=base); configs keeps the configuration
\* built last, for a later call to name as its base
Create(args, base) ==
    LET r == CreateStrategyConfiguration(STRATEGIES, args, base) IN
    /\ configs' = IF r.exc = NoExc THEN r.value ELSE configs
    /\ ret' = [op |-> "create_strategy_configuration", args |-> args, base |-> base,
               exc |-> r.exc, value |-> r.value, baseAfter |-> r.base]
    /\ UNCHANGED <<_stack, initial_context, scopes, components, STRATEGIES, registered>>

NextConfig ==
    /\ ret.op = "init"
    /\ \/ \E args \in Requests : Len(configs) = 0 /\ Create(args, <<>>)
       \/ \E args \in Requests : Len(configs) > 0 /\ Create(args, configs)

SpecConfig == InitConfig /\ [][NextConfig]_vars

-----------------------------------------------------------------------------
(* Claims about create_strategy_configuration *)

\* a call that returned a configuration built on a base
Built == ret.op = "create_strategy_configuration" /\ ret.exc = NoExc

Parent == ret.base[1]
Child == ret.value[1]

\* the ids of the strategies of a class in a strategies map
IdsOfClass(strategies, class) ==
    {strategies[i].k : i \in {j \in DOMAIN strategies : strategies[j].v.strategy_class = class}}

\* the requested strategy ids of a class
RequestedOfClass(class) ==
    {id \in Range(ret.args.strategies) : ODGet(STRATEGIES, id).strategy_class = class}

\* the interfaces the requested delegates are for
RequestedInterfaces == {ODGet(STRATEGIES, id).interface_name : id \in Range(ret.args.delegates)}

\* C7: a child built on Parent with one requested strategy of a class Parent has a
\* strategy of holds only the new strategy for that class; Parent's strategies of the
\* classes not requested and Parent's delegates for the interfaces not re-declared are
\* all still in the child.
C7_InheritanceOverride ==
    (Built /\ Len(ret.base) > 0) =>
        /\ \A i \in DOMAIN Parent.strategies :
              LET class == Parent.strategies[i].v.strategy_class IN
              /\ Cardinality(RequestedOfClass(class)) = 1 =>
                    /\ IdsOfClass(Child.strategies, class) = RequestedOfClass(class)
                    /\ \A id \in RequestedOfClass(class) :
                          ODGet(Child.strategies, id) = ODGet(STRATEGIES, id)
              /\ RequestedOfClass(class) = {} =>
                    /\ Parent.strategies[i].k \in ODKeys(Child.strategies)
                    /\ ODGet(Child.strategies, Parent.strategies[i].k) = Parent.strategies[i].v
        /\ \A i \in DOMAIN Parent.delegates :
              Parent.delegates[i].k \notin RequestedInterfaces =>
                  /\ Parent.delegates[i].k \in ODKeys(Child.delegates)
                  /\ ODGet(Child.delegates, Parent.delegates[i].k) = Parent.delegates[i].v

\* C7 witness: the parent has f:1, g:1 and a delegate; the child asks for f:2 and has
\* f:2 but not f:1, and g:1 and the delegate still
C7_Witness ==
    /\ Built
    /\ Len(ret.base) > 0
    /\ ret.args.strategies = <<F2>>
    /\ {F1, G1} \subseteq ODKeys(Parent.strategies)
    /\ Len(Parent.delegates) > 0
    /\ ODKeys(Child.strategies) = {G1, F2}
    /\ Child.delegates = Parent.delegates

\* two requested delegates, at different places of the list, are for one interface
DuplicateDelegates ==
    /\ ret.op = "create_strategy_configuration"
    /\ \E i, j \in DOMAIN ret.args.delegates :
          /\ i # j
          /\ ret.args.delegates[i] \in ODKeys(STRATEGIES)
          /\ ret.args.delegates[j] \in ODKeys(STRATEGIES)
          /\ ODGet(STRATEGIES, ret.args.delegates[i]).interface_name
                = ODGet(STRATEGIES, ret.args.delegates[j]).interface_name

\* C8 as stated: two requested delegates for one interface make the call raise
\* RuntimeError, and no configuration is returned.
C8_Original ==
    DuplicateDelegates => (ret.exc = "RuntimeError" /\ ret.value = <<>>)

\* every id the call looks up before it reaches the second of two delegates for one
\* interface is registered
AllRegistered == Range(ret.args.strategies) \cup Range(ret.args.delegates) \subseteq ODKeys(STRATEGIES)

\* C8 amended: two requested delegates for one interface make the call raise at
\* build time, and no configuration is returned; the error is RuntimeError when the
\* requested ids are all registered, and otherwise may be the LookupError of an
\* unregistered id that is looked up first.
C8_DuplicateDelegateRejected ==
    DuplicateDelegates =>
        /\ ret.exc \in {"RuntimeError", "LookupError"}
        /\ ret.value = <<>>
        /\ configs = ret.base \/ ret.base = <<>>
        /\ AllRegistered => ret.exc = "RuntimeError"

\* C8 witness: f:1 and f:2, both for "exception", were requested as delegates, with
\* nothing else wrong, and the call raised RuntimeError
C8_Witness ==
    /\ DuplicateDelegates
    /\ ret.args.delegates = <<F1, F2>>
    /\ ret.args.strategies = <<>>
    /\ ret.exc = "RuntimeError"

\* the i-th requested strategy id is looked up, and resolves to a strategy without a score
ResolvesUnscored(i) ==
    /\ \A j \in 1..i : ret.args.strategies[j] \in ODKeys(STRATEGIES)
    /\ ODGet(STRATEGIES, ret.args.strategies[i]).score.none

C16_OnePerClassAndInterface ==
    Built =>
        /\ \A i, j \in DOMAIN Child.strategies :
              i # j => Child.strategies[i].v.strategy_class # Child.strategies[j].v.strategy_class
        /\ \A i, j \in DOMAIN Child.delegates :
              i # j => Child.delegates[i].v.interface_name # Child.delegates[j].v.interface_name

\* a call that named a base
OnBase == ret.op = "create_strategy_configuration" /\ Len(ret.base) > 0

\* C18: a configuration built on a base has a strategy of every strategy_class the
\* base has a strategy of, and a delegate for every interface_name the base has a
\* delegate for.
C18_InheritanceKeepsCoverage ==
    (Built /\ OnBase) =>
        /\ \A i \in DOMAIN Parent.strategies :
              IdsOfClass(Child.strategies, Parent.strategies[i].v.strategy_class) # {}
        /\ ODKeys(Parent.delegates) \subseteq ODKeys(Child.delegates)

\* C18 witness: the base has strategies of the classes f and g and a delegate; the
\* child asks for another f strategy and another delegate of that interface
C18_Witness ==
    /\ Built /\ OnBase
    /\ {F1, G1} \subseteq ODKeys(Parent.strategies)
    /\ ret.args.strategies = <<F2>>
    /\ Len(Parent.delegates) = 1
    /\ Len(ret.args.delegates) = 1
    /\ Parent.delegates[1].k = Child.delegates[1].k
    /\ Parent.delegates[1].v # Child.delegates[1].v

\* the i-th requested delegate is for an interface the base has a delegate for
Redelegates(i) ==
    /\ ret.args.delegates[i] \in ODKeys(STRATEGIES)
    /\ ODGet(STRATEGIES, ret.args.delegates[i]).interface_name \in ODKeys(Parent.delegates)

\* the call asks for nothing that is refused for another reason
NothingElseWrong ==
    /\ AllRegistered
    /\ \A i \in DOMAIN ret.args.strategies : ~ODGet(STRATEGIES, ret.args.strategies[i]).score.none
    /\ ~DuplicateDelegates

\* C19: a requested delegate for an interface the base already has a delegate for
\* is not an error: the child's delegate for that interface is the requested
\* strategy, and the base keeps the delegates (and strategies) it had.
C19_InheritedDelegateReplaced ==
    OnBase =>
        \A i \in DOMAIN ret.args.delegates :
            Redelegates(i) =>
                /\ ret.baseAfter = ret.base
                /\ NothingElseWrong => Built
                /\ Built => ODGet(Child.delegates, ODGet(STRATEGIES, ret.args.delegates[i]).interface_name)
                               = ODGet(STRATEGIES, ret.args.delegates[i])

\* C19 witness: the base delegates "stacktrace" to u:1, the child to g:1
C19_Witness ==
    /\ Built /\ OnBase
    /\ ODGet(Parent.delegates, "stacktrace") = ODGet(STRATEGIES, U1)
    /\ ret.args.delegates = <<G1>>
    /\ ODGet(Child.delegates, "stacktrace") = ODGet(STRATEGIES, G1)
    /\ ODGet(ret.baseAfter[1].delegates, "stacktrace") = ODGet(STRATEGIES, U1)

-----------------------------------------------------------------------------
(* The scope stack alone: SpecContext *)

InitialContexts == {EmptyDict, DictPut(EmptyDict, "k", <<"a">>)}

CtxRet(op, key, value, exc) == [op |-> op, key |-> key, value |-> value, exc |-> exc]

InitContext ==
    /\ initial_context \in InitialContexts
    /\ _stack = CtxInit(initial_context).stack
    /\ scopes = <<Readout(<<>>, initial_context), Readout(<<ConfigFrame>>, initial_context)>>
    /\ components = <<>>
    /\ STRATEGIES = <<>>
    /\ configs = <<>>
    /\ registered = <<>>
    /\ ret = CtxRet("init", "-", None, NoExc)

\* context.push(), context.__enter__()
Push ==
    /\ Len(_stack) < MaxDepth
    /\ _stack' = CtxPush(_stack)
    /\ scopes' = Append(scopes, Readout(_stack, initial_context))
    /\ ret' = CtxRet("push", "-", None, NoExc)
    /\ UNCHANGED <<initial_context, components, STRATEGIES, configs, registered>>

\* context.pop(), context.__exit__()
Pop ==
    /\ _stack' = CtxPop(_stack)
    /\ scopes' = IF CtxPopRaises(_stack) THEN scopes ELSE SubSeq(scopes, 1, Len(scopes) - 1)
    /\ ret' = IF CtxPopRaises(_stack)
              THEN CtxRet("pop", "-", None, "IndexError")
              ELSE [CtxRet("pop", "-", None, NoExc) EXCEPT
                        !.value = FrameDict(_stack[Len(_stack)], initial_context)]
    /\ UNCHANGED <<initial_context, components, STRATEGIES, configs, registered>>

\* context[k] = v
SetItem(k, v) ==
    LET c == CtxSet([stack |-> _stack, ic |-> initial_context], k, v) IN
    /\ _stack' = c.stack
    /\ initial_context' = c.ic
    /\ ret' = CtxRet("set", k, v, IF CtxSetRaises([stack |-> _stack, ic |-> initial_context])
                                   THEN "IndexError" ELSE NoExc)
    /\ UNCHANGED <<scopes, components, STRATEGIES, configs, registered>>

\* context[k]
GetItem(k) ==
    LET r == CtxGet(_stack, initial_context, k) IN
    /\ ret' = CtxRet("get", k, r.value, r.exc)
    /\ UNCHANGED <<_stack, initial_context, scopes, components, STRATEGIES, configs, registered>>

NextContext ==
    \/ Push
    \/ Pop
    \/ \E k \in ContextKeys, v \in ContextValues : SetItem(k, v)
    \/ \E k \in ContextKeys : GetItem(k)

SpecContext == InitContext /\ [][NextContext]_vars

-----------------------------------------------------------------------------
(* Claims about the scope stack *)

\* C5: once a scope is popped, every key reads what it read just before that
\* scope was pushed: the outer frame's value, or KeyError when no remaining
\* frame binds it; nothing bound inside the scope is left visible.
C5_PoppedScopeInvisible ==
    [][(ret'.op = "pop" /\ ret'.exc = NoExc)
        => Readout(_stack', initial_context') = scopes[Len(scopes)]]_vars

\* C5 witness: a scope that bound "k" has been popped and "k" no longer reads that binding
C5_Witness ==
    /\ ret.op = "pop"
    /\ ret.exc = NoExc
    /\ Len(_stack) >= 2
    /\ "k" \in DOMAIN ret.value
    /\ CtxGet(_stack, initial_context, "k") # [exc |-> NoExc, value |-> ret.value["k"]]

\* the frames that bind k
Binders(k) == {i \in 1..Len(_stack) : k \in DOMAIN FrameDict(_stack[i], initial_context)}

\* C6: context[k] is the value k has in the most recently pushed frame that
\* binds k, and KeyError exactly when no frame binds it.
C6_InnermostBindingWins ==
    ret.op = "get" =>
        IF Binders(ret.key) = {}
        THEN ret.exc = "KeyError"
        ELSE /\ ret.exc = NoExc
             /\ ret.value = FrameDict(_stack[Max(Binders(ret.key))], initial_context)[ret.key]

\* C6 witness: a read of a key that an inner frame shadows and an outer frame also binds
C6_Witness ==
    /\ ret.op = "get"
    /\ Cardinality(Binders(ret.key)) >= 2
    /\ \E i \in Binders(ret.key) :
          FrameDict(_stack[i], initial_context)[ret.key] # ret.value


\* what a context built now from the same configuration reads
AnotherContext == Readout(CtxInit(initial_context).stack, initial_context)

\* C27: a constructed context has the configuration's initial_context as its bottom
\* frame and one frame of its own above it that holds "variant" = None; and no push,
\* pop or context[k] = v taken and ended above the configuration's frame with a frame
\* of the context's own on top (pops have not exceeded pushes) changes the
\* configuration's initial_context, so that what another context of the same
\* configuration reads is not changed by it.
C27_WritesStayOffTheConfiguration ==
    /\ _stack = <<ConfigFrame, OwnFrame(DictPut(EmptyDict, "variant", None))>>
    /\ [][(Len(_stack) >= 2 /\ _stack[1] = ConfigFrame /\ Len(_stack') >= 2) =>
              /\ initial_context' = initial_context
              /\ _stack'[1] = ConfigFrame
              /\ AnotherContext' = AnotherContext]_vars

\* C27 witness: context["k"] = "s" was set while pops had not exceeded pushes; this
\* context reads "s" and a context built now from the same configuration does not
C27_Witness ==
    /\ ret.op = "set"
    /\ ret.key = "k"
    /\ Len(_stack) >= 2
    /\ CtxGet(_stack, initial_context, "k") = [exc |-> NoExc, value |-> <<"s">>]
    /\ AnotherContext["k"] # [exc |-> NoExc, value |-> <<"s">>]

-----------------------------------------------------------------------------
(* StrategyConfiguration.iter_strategies *)

\* a score Python takes for false: None or 0
Falsy(score) == score.none \/ score.n = 0

\* the sort key, lambda x: x.score and -x.score or 0
SortKeyAscending(x) == IF Falsy(x.score) THEN 0 ELSE x.score.n

SortKey(x) ==
    LET negated == IF Falsy(x.score) THEN x.score ELSE Score(-x.score.n)
    IN IF Falsy(negated) THEN 0 ELSE negated.n

\* x put into a list sorted by key, behind every element whose key is not greater
RECURSIVE InsertByKey(_, _)
InsertByKey(sorted, x) ==
    IF Len(sorted) = 0 THEN <<x>>
    ELSE IF SortKey(sorted[Len(sorted)]) <= SortKey(x) THEN Append(sorted, x)
    ELSE Append(InsertByKey(SubSeq(sorted, 1, Len(sorted) - 1), x), sorted[Len(sorted)])

\* sorted(values, key=...): ascending by key, elements of equal key in their order in values
RECURSIVE SortedByKey(_)
SortedByKey(values) ==
    IF Len(values) = 0 THEN <<>>
    ELSE InsertByKey(SortedByKey(SubSeq(values, 1, Len(values) - 1)), values[Len(values)])

\* config.iter_strategies(), as the list it iterates over
IterStrategies(config) ==
    SortedByKey([i \in DOMAIN config.strategies |-> config.strategies[i].v])

-----------------------------------------------------------------------------
(* Iterating over the strategies of a configuration: SpecIter *)

IterIds == <<<<"a", ":", "1">>, <<"b", ":", "1">>, <<"c", ":", "1">>>>

\* the scores the registered strategies may have: negative, zero, positive
IterScores == {-1, 0, 1}

\* the registry after strategy([id], "message", score[id]) for each id of IterIds
RECURSIVE IterRegistry(_, _)
IterRegistry(score, i) ==
    IF i = 0 THEN <<>>
    ELSE Register(IterRegistry(score, i - 1), <<IterIds[i]>>, "message", Score(score[i]), "f").registry

\* a call that names strategies only
StrategiesOnly(strategies) ==
    [id |-> <<"c">>, strategies |-> strategies, delegates |-> <<>>,
     risk |-> NoScore, hidden |-> FALSE, initial_context |-> EmptyDict,
     enhancements_base |-> None, fingerprinting_bases |-> None]

\* three strategies are registered and a configuration was built from some of them
InitIter ==
    /\ initial_context = EmptyDict
    /\ _stack = <<>>
    /\ scopes = <<>>
    /\ components = <<>>
    /\ registered = <<>>
    /\ \E score \in [DOMAIN IterIds -> IterScores], n \in 0..MaxRequested :
          \E requested \in [1..n -> Range(IterIds)] :
              /\ STRATEGIES = IterRegistry(score, Len(IterIds))
              /\ configs = CreateStrategyConfiguration(IterRegistry(score, Len(IterIds)),
                                                       StrategiesOnly(requested), <<>>).value
    /\ ret = [op |-> "init"]

\* list(config.iter_strategies())
Iterate ==
    /\ ret' = [op |-> "iter_strategies", value |-> IterStrategies(configs[1])]
    /\ UNCHANGED <<_stack, initial_context, scopes, components, STRATEGIES, configs, registered>>

NextIter == Iterate

SpecIter == InitIter /\ [][NextIter]_vars

-----------------------------------------------------------------------------
(* Claims about iter_strategies *)

Iterated == ret.op = "iter_strategies"

\* where the strategy with this id is in the configuration's strategies map
PlaceOf(id) == ODIndex(configs[1].strategies, id)

\* C11: iter_strategies yields each strategy of the configuration exactly once, by
\* descending score for every integer score (0 and negative ones included), and
\* strategies of equal score in their order in the strategies map, which is the same
\* on every call.
C11_DescendingStableOrder ==
    Iterated =>
        /\ Len(ret.value) = Len(configs[1].strategies)
        /\ \A i \in DOMAIN configs[1].strategies :
              Cardinality({j \in DOMAIN ret.value : ret.value[j] = configs[1].strategies[i].v}) = 1
        /\ \A i, j \in DOMAIN ret.value :
              i < j =>
                  /\ ret.value[i].score.n >= ret.value[j].score.n
                  /\ ret.value[i].score.n = ret.value[j].score.n =>
                        PlaceOf(ret.value[i].id) < PlaceOf(ret.value[j].id)

\* C11 witness: a negative score, and two strategies of score 0 that come out in map
\* order, ahead of the negative one that the map holds between them
C11_Witness ==
    /\ Iterated
    /\ Len(ret.value) = 3
    /\ ret.value[1].score.n = 0 /\ ret.value[2].score.n = 0 /\ ret.value[3].score.n < 0
    /\ PlaceOf(ret.value[3].id) = 2

-----------------------------------------------------------------------------
(* Registering and looking up strategies: SpecRegistry *)

\* [id, strategy] pairs the registry history may hold
MaxRegistered == 3

\* ids one strategy(...) decoration names
MaxIds == 2

\* the ids strategies are registered under, and one that never is
RegistryIds == {F1, F2}

LookupIds == RegistryIds \cup {Unregistered}

\* nothing is registered yet
InitRegistry ==
    /\ initial_context = EmptyDict
    /\ _stack = <<>>
    /\ scopes = <<>>
    /\ components = <<>>
    /\ configs = <<>>
    /\ STRATEGIES = <<>>
    /\ registered = <<>>
    /\ ret = [op |-> "init"]

\* strategy(ids, interface, score)(f)
Decorate(ids, interface, score, f) ==
    LET r == Register(STRATEGIES, ids, interface, score, f) IN
    /\ Len(registered) + Len(ids) <= MaxRegistered
    /\ STRATEGIES' = r.registry
    /\ registered' = IF r.exc # NoExc THEN registered
                     ELSE registered \o [i \in DOMAIN ids |->
                              [id |-> ids[i],
                               strategy |-> NewStrategy(ids[i], interface, interface, score, f)]]
    /\ ret' = [op |-> "strategy", id |-> None, exc |-> r.exc, value |-> None]
    /\ UNCHANGED <<_stack, initial_context, scopes, components, configs>>

\* lookup_strategy(strategy_id)
Lookup(strategy_id) ==
    LET r == LookupStrategy(STRATEGIES, strategy_id) IN
    /\ ret' = [op |-> "lookup_strategy", id |-> strategy_id, exc |-> r.exc, value |-> r.value]
    /\ UNCHANGED <<_stack, initial_context, scopes, components, STRATEGIES, configs, registered>>

NextRegistry ==
    \/ \E n \in 0..MaxIds :
          \E ids \in [1..n -> RegistryIds], score \in {NoScore, Score(1)}, f \in {"f", "g"} :
              Decorate(ids, "exception", score, f)
    \/ \E strategy_id \in LookupIds : Lookup(strategy_id)

SpecRegistry == InitRegistry /\ [][NextRegistry]_vars

-----------------------------------------------------------------------------
(* Claims about the registry *)

\* the places of the history where a strategy was stored under this id
StoredUnder(id) == {i \in DOMAIN registered : registered[i].id = id}

\* C14: lookup_strategy(id) returns the strategy stored last under id, whatever was
\* stored under id before it and under other ids at any time, and raises
\* LookupError, which is no KeyError, when nothing was ever stored under id.
C14_LookupGivesLatest ==
    ret.op = "lookup_strategy" =>
        IF StoredUnder(ret.id) = {}
        THEN ret.exc = "LookupError" /\ ret.exc # "KeyError"
        ELSE /\ ret.exc = NoExc
             /\ ret.value = registered[Max(StoredUnder(ret.id))].strategy

\* C14 witness: a lookup of an id that was registered twice, differently, with a
\* registration under another id after the second
C14_Witness ==
    /\ ret.op = "lookup_strategy"
    /\ ret.exc = NoExc
    /\ \E i, j, k \in DOMAIN registered :
          /\ i < j /\ j < k
          /\ registered[i].id = ret.id /\ registered[j].id = ret.id /\ registered[k].id # ret.id
          /\ registered[i].strategy # registered[j].strategy
          /\ ret.value = registered[j].strategy

-----------------------------------------------------------------------------
(* GroupingContext: dispatch to the delegate of an interface *)

\* self.config.delegates.get(path): <<>> for None, or <<the strategy>>
FallbackDelegate(config, path) ==
    IF path \in ODKeys(config.delegates) THEN <<ODGet(config.delegates, path)>>
    ELSE IF Len(config.delegates) > 0 THEN <<config.delegates[1].v>> ELSE <<>>

Delegate(config, path) ==
    IF path \in ODKeys(config.delegates) THEN <<ODGet(config.delegates, path)>> ELSE <<>>

\* what a dispatch ends with: what was raised or returned, the invocations made and
\* the context [stack, ic] it leaves
Dispatched(exc, value, calls, c) ==
    [exc |-> exc, value |-> value, calls |-> calls, stack |-> c.stack, ic |-> c.ic]

\* a strategy function that does context[k] = v for each [k, v] of sets and then
\* ends as out does
Binds(out, sets) == [kind |-> out.kind, value |-> out.value, heap |-> out.heap, sets |-> sets]

SetsOf(out) == IF "sets" \in DOMAIN out THEN out.sets ELSE <<>>

RECURSIVE ApplySets(_, _)
ApplySets(c, sets) ==
    IF Len(sets) = 0 THEN c
    ELSE ApplySets(CtxSet(c, sets[1].k, sets[1].v), Tail(sets))

\* Strategy.__call__ and Strategy._invoke: the function is called with the context
\* object it was handed, no scope is entered; the result is the context it leaves
InvokeInOwnScope(c, out) ==
    [stack |-> CtxPop(ApplySets([c EXCEPT !.stack = CtxPush(c.stack)], SetsOf(out)).stack),
     ic |-> c.ic]

Invoke(c, out) == ApplySets(c, SetsOf(out))

\* GroupingContext._get_strategy_dict; c is [stack, ic], out what the delegate's
\* function does if invoked (Strategy.__call__ hands it the caller's context as it is)
GetStrategyDict(config, path, c, out) ==
    LET strategy == Delegate(config, path) IN
    IF Len(strategy) = 0 THEN Dispatched("RuntimeError", None, <<>>, c)
    ELSE LET call == [strategy |-> strategy[1].id,
                      variant |-> CtxGet(c.stack, c.ic, "variant").value,
                      depth |-> Len(c.stack)]
             left == Invoke(c, out)
         IN IF out.kind = "raise" THEN Dispatched("Error", None, <<call>>, left)
            ELSE IF out.kind # "dict" THEN Dispatched("AssertionError", None, <<call>>, left)
            ELSE Dispatched(NoExc, out.value, <<call>>, left)

\* GroupingContext.get_grouping_components_by_variant
GetGroupingComponentsByVariant(config, path, c, out) == GetStrategyDict(config, path, c, out)

\* rv[self["variant"]]
PickOnly(rv, variant) == [exc |-> NoExc, value |-> rv[1].v]

PickCurrent(rv, variant) ==
    IF variant.exc # NoExc THEN [exc |-> variant.exc, value |-> None]
    ELSE IF variant.value \in ODKeys(rv) THEN [exc |-> NoExc, value |-> ODGet(rv, variant.value)]
    ELSE [exc |-> "KeyError", value |-> None]

\* GroupingContext.get_single_grouping_component
GetSingleGroupingComponent(config, path, c, out) ==
    LET rv == GetStrategyDict(config, path, c, out) IN
    IF rv.exc # NoExc THEN rv
    ELSE IF Len(rv.value) # 1 THEN Dispatched("AssertionError", None, rv.calls, rv)
    ELSE LET picked == PickCurrent(rv.value, CtxGet(rv.stack, rv.ic, "variant"))
         IN Dispatched(picked.exc, picked.value, rv.calls, rv)

-----------------------------------------------------------------------------
(* A context that dispatches to the delegates of its configuration: SpecDispatch *)

\* a call that names delegates only
DelegatesOnly(delegates) ==
    [id |-> <<"c">>, strategies |-> <<>>, delegates |-> delegates,
     risk |-> NoScore, hidden |-> FALSE, initial_context |-> EmptyDict,
     enhancements_base |-> None, fingerprinting_bases |-> None]

\* the configurations under test: without delegates, with one, with one per interface
DispatchConfigs ==
    {CreateStrategyConfiguration(Imported, DelegatesOnly(delegates), <<>>).value :
        delegates \in {<<>>, <<F1>>, <<U1>>, <<F2, G1>>}}

\* interface.path of the interface handed in
Paths == {"exception", "stacktrace", "frame"}

\* what the delegate's function may bind in the context it is handed
DelegateSets == {<<>>, <<[k |-> "k", v |-> <<"s">>]>>, <<[k |-> "variant", v |-> <<"a">>]>>}

\* what the delegate's function may do
DelegateOutcomes ==
    {Binds(out, sets) : out \in WrappedOutcomes(1) \cup {NotADict}, sets \in DelegateSets}

\* a context of one of the configurations, fresh or with a variant picked by an enclosing scope
InitDispatch ==
    /\ initial_context = EmptyDict
    /\ \/ _stack = CtxInit(initial_context).stack
       \/ \E variant \in PickedVariants :
              _stack = CtxSet([stack |-> CtxPush(CtxInit(initial_context).stack), ic |-> initial_context],
                              "variant", variant).stack
    /\ scopes = <<>>
    /\ components = <<>>
    /\ STRATEGIES = Imported
    /\ configs \in DispatchConfigs
    /\ registered = <<>>
    /\ ret = [op |-> "init"]

DispatchRet(op, path, out, r) ==
    [op |-> op, path |-> path, out |-> out,
     variant |-> CtxGet(_stack, initial_context, "variant").value,
     depth |-> Len(_stack), before |-> Readout(_stack, initial_context),
     exc |-> r.exc, value |-> r.value, calls |-> r.calls]

\* context.get_grouping_components_by_variant(interface, event=event)
CallByVariant(path, out) ==
    LET r == GetGroupingComponentsByVariant(configs[1], path, [stack |-> _stack, ic |-> initial_context], out) IN
    /\ ret' = DispatchRet("get_grouping_components_by_variant", path, out, r)
    /\ _stack' = r.stack
    /\ initial_context' = r.ic
    /\ UNCHANGED <<scopes, components, STRATEGIES, configs, registered>>

\* context.get_single_grouping_component(interface, event=event)
CallSingle(path, out) ==
    LET r == GetSingleGroupingComponent(configs[1], path, [stack |-> _stack, ic |-> initial_context], out) IN
    /\ ret' = DispatchRet("get_single_grouping_component", path, out, r)
    /\ _stack' = r.stack
    /\ initial_context' = r.ic
    /\ UNCHANGED <<scopes, components, STRATEGIES, configs, registered>>

NextDispatch ==
    \/ \E path \in Paths, out \in DelegateOutcomes : CallByVariant(path, out)
    \/ \E path \in Paths, out \in DelegateOutcomes : CallSingle(path, out)

SpecDispatch == InitDispatch /\ [][NextDispatch]_vars

-----------------------------------------------------------------------------
(* Claims about the dispatch *)

DispatchCall == ret.op \in {"get_grouping_components_by_variant", "get_single_grouping_component"}

NoDelegate == ret.path \notin ODKeys(configs[1].delegates)

CurrentVariant == CtxGet(_stack, initial_context, "variant").value

\* the delegate's function returned a mapping of exactly one entry
ReturnedOne == ret.out.kind = "dict" /\ Len(ret.out.value) = 1

\* C17: get_single_grouping_component invokes the delegate of the interface, once
\* and in the caller's scope; a mapping that has not exactly one entry fails the
\* assertion; a mapping of one entry gives the component under the key that equals
\* the current context["variant"], and KeyError when its one key is another.
\* (The current variant is the one read after the delegate's function has run.)
C17_SingleReturnsCurrentVariant ==
    (ret.op = "get_single_grouping_component" /\ ~NoDelegate) =>
        /\ Len(ret.calls) = 1
        /\ ret.calls[1].strategy = ODGet(configs[1].delegates, ret.path).id
        /\ ret.calls[1].depth = ret.depth
        /\ (ret.out.kind # "raise" /\ ~ReturnedOne) => ret.exc = "AssertionError"
        /\ ReturnedOne =>
              IF ret.out.value[1].k = CurrentVariant
              THEN ret.exc = NoExc /\ ret.value = ret.out.value[1].v
              ELSE ret.exc = "KeyError"
        /\ ret.exc = NoExc => (ReturnedOne /\ ret.value = ODGet(ret.out.value, CurrentVariant))

\* C17 witness: with variant "s" picked, the delegate returned one entry under "s"
C17_Witness ==
    /\ ret.op = "get_single_grouping_component"
    /\ ret.variant = <<"s">>
    /\ CurrentVariant = <<"s">>
    /\ ReturnedOne
    /\ ret.exc = NoExc
    /\ ret.value = ODGet(ret.out.value, <<"s">>)

-----------------------------------------------------------------------------
(* Calls that open scopes on a context: SpecScopes *)

\* with context: context[k] = v, and then the body returns or raises
WithContext(k, v, raised) ==
    LET entered == [stack |-> CtxPush(_stack), ic |-> initial_context]
        inside == CtxSet(entered, k, v)
    IN /\ _stack' = CtxExit(inside.stack, raised)
       /\ initial_context' = inside.ic
       /\ ret' = [op |-> "with", key |-> k, value |-> v, exc |-> IF raised THEN "Error" ELSE NoExc]
       /\ UNCHANGED <<scopes, components, STRATEGIES, configs, registered>>

\* one call on a context that is fresh or has a variant picked by an enclosing scope
NextScopes ==
    /\ ret.op = "init"
    /\ \/ \E k \in ContextKeys, v \in ContextValues, raised \in BOOLEAN : WithContext(k, v, raised)
       \/ \E strategy \in TestStrategies, event \in TestEvents, variant \in {None, <<"a">>} :
              \E out \in {NotADict, Raises, Returns(<<[k |-> <<"a">>, v |-> 1]>>, <<Component(TRUE, <<"h1">>)>>)} :
                  CallGetGroupingComponent(strategy, event, variant, out)
       \/ \E n \in 0..MaxDeclared :
              \E variants_to_produce \in [1..n -> DeclaredNames] :
                  \E outs \in OutcomeSeqs(IF n = 0 THEN 1 ELSE n) :
                      CallWrapped(variants_to_produce, outs)

SpecScopes == InitVariants /\ [][NextScopes]_vars

-----------------------------------------------------------------------------
(* Claims about scopes opened by calls *)

ScopedCalls == {"with", "get_grouping_component", "call_with_variants"}

\* C20: a with block on the context, Strategy.get_grouping_component and
\* call_with_variants leave the frame stack as deep as they found it and every key,
\* context["variant"] among them, reading what it read before the call, whether
\* the call returns or raises.
C20_BalancedScopes ==
    [][ret'.op \in ScopedCalls =>
          /\ Len(_stack') = Len(_stack)
          /\ Readout(_stack', initial_context') = Readout(_stack, initial_context)]_vars

\* C20 witness: call_with_variants failed its assertion in the second scope it
\* had pushed, and the stack is as deep as before the call
C20_Witness ==
    /\ ret.op = "call_with_variants"
    /\ ret.exc = "AssertionError"
    /\ Len(ret.calls) = 2
    /\ ret.calls[2].depth = ret.depth + 1
    /\ Len(_stack) = ret.depth


\* the dispatch invoked the delegate's function
DelegateInvoked == DispatchCall /\ Len(ret.calls) = 1

\* C22 as stated: every delegate invocation made through
\* get_grouping_components_by_variant or get_single_grouping_component runs in a
\* scope of its own, pushed before and popped after, so that no key the delegate's
\* function binds is visible to the caller afterwards
C22_Original ==
    DelegateInvoked =>
        /\ ret.calls[1].depth = ret.depth + 1
        /\ Len(_stack) = ret.depth
        /\ Readout(_stack, initial_context) = ret.before

\* C22: a delegate invocation made through get_grouping_components_by_variant or
\* get_single_grouping_component runs in the caller's current scope: the dispatch
\* pushes and pops nothing, so a key the delegate's function binds is written to the
\* caller's innermost frame and reads the bound value after the call, while every
\* other key reads what it read before
C22_DelegateRunsInCallersScope ==
    DelegateInvoked =>
        /\ ret.calls[1].depth = ret.depth
        /\ Len(_stack) = ret.depth
        /\ \A k \in ContextKeys :
              IF \E i \in 1..Len(SetsOf(ret.out)) : SetsOf(ret.out)[i].k = k
              THEN \E i \in 1..Len(SetsOf(ret.out)) :
                       /\ SetsOf(ret.out)[i].k = k
                       /\ CtxGet(_stack, initial_context, k) = [exc |-> NoExc, value |-> SetsOf(ret.out)[i].v]
              ELSE CtxGet(_stack, initial_context, k) = ret.before[k]

\* C22 witness: "k" was unbound before get_grouping_components_by_variant, the
\* delegate's function bound it, and the caller reads the binding after the call
C22_Witness ==
    /\ ret.op = "get_grouping_components_by_variant"
    /\ Len(ret.calls) = 1
    /\ ret.before["k"].exc = "KeyError"
    /\ SetsOf(ret.out) = <<[k |-> "k", v |-> <<"s">>]>>
    /\ CtxGet(_stack, initial_context, "k") = [exc |-> NoExc, value |-> <<"s">>]


-----------------------------------------------------------------------------
(* Children built from one base configuration: SpecInherit *)

\* enhancements_base arguments: None, "", and two names
EnhancementsBases == {None, <<>>, <<"e">>, <<"n">>}

\* fingerprinting_bases arguments: None, [], and a list of one name
FingerprintingBases == {None, <<>>, <<"b">>}

\* initial_context arguments: None or {} (which act alike), and two overrides
ContextOverrides ==
    {EmptyDict, DictPut(EmptyDict, "k", <<"s">>),
     DictPut(DictPut(EmptyDict, "k", <<"a">>), "variant", <<"s">>)}

\* the arguments of one call: either strategies, delegates and initial_context are
\* given (the call raises on the unscored strategy and on the second delegate of
\* one interface), or enhancements_base and fingerprinting_bases are
InheritRequests ==
    {[id |-> <<"c">>, strategies |-> strategies, delegates |-> delegates,
      risk |-> NoScore, hidden |-> FALSE, initial_context |-> overrides,
      enhancements_base |-> None, fingerprinting_bases |-> None] :
         strategies \in {<<>>, <<F2>>, <<F2, U1>>}, delegates \in {<<>>, <<G1>>, <<F1, F2>>},
         overrides \in ContextOverrides}
    \cup
    {[id |-> <<"c">>, strategies |-> <<>>, delegates |-> <<>>,
      risk |-> NoScore, hidden |-> FALSE, initial_context |-> EmptyDict,
      enhancements_base |-> enhancements_base, fingerprinting_bases |-> fingerprinting_bases] :
         enhancements_base \in EnhancementsBases, fingerprinting_bases \in FingerprintingBases}

\* the registry is filled and no configuration is built yet
InitInherit ==
    /\ initial_context = EmptyDict
    /\ _stack = <<>>
    /\ scopes = <<>>
    /\ components = <<>>
    /\ STRATEGIES = Imported
    /\ configs = <<>>
    /\ registered = <<>>
    /\ ret = [op |-> "init"]

\* create_strategy_configuration(..., base=the base): one more child of the base,
\* which stays the base of the next call, as the call leaves it
CreateChild(args) ==
    LET r == CreateStrategyConfiguration(STRATEGIES, args, configs) IN
    /\ configs' = r.base
    /\ ret' = [op |-> "create_strategy_configuration", args |-> args, base |-> configs,
               exc |-> r.exc, value |-> r.value, baseAfter |-> r.base]
    /\ UNCHANGED <<_stack, initial_context, scopes, components, STRATEGIES, registered>>

NextInherit ==
    \/ \E args \in InheritRequests : Len(configs) = 0 /\ Create(args, <<>>)
    \/ \E args \in InheritRequests : Len(configs) > 0 /\ CreateChild(args)

SpecInherit == InitInherit /\ [][NextInherit]_vars

-----------------------------------------------------------------------------
(* Claims about inheritance from a base *)

\* what the new configuration inherits: the base's value, None without a base
InheritedEnhancementsBase == IF OnBase THEN Parent.enhancements_base ELSE None
InheritedFingerprintingBases == IF OnBase THEN Parent.fingerprinting_bases ELSE None

\* C24 as stated: enhancements_base and fingerprinting_bases are the argument
\* whenever one is provided, an empty one included, and the inherited value otherwise
C24_Original ==
    Built =>
        /\ Child.enhancements_base =
              IF ret.args.enhancements_base # None THEN ret.args.enhancements_base
              ELSE InheritedEnhancementsBase
        /\ Child.fingerprinting_bases =
              IF ret.args.fingerprinting_bases # None THEN ret.args.fingerprinting_bases
              ELSE InheritedFingerprintingBases

\* C24 amended: enhancements_base and fingerprinting_bases are the argument whenever
\* a non-empty one is provided; for None and for an empty value ("" or []) they are
\* the inherited value, which is the base's, or None without a base
C24_NonEmptyOverrides ==
    Built =>
        /\ Child.enhancements_base =
              IF ret.args.enhancements_base \notin {None, <<>>} THEN ret.args.enhancements_base
              ELSE InheritedEnhancementsBase
        /\ Child.fingerprinting_bases =
              IF ret.args.fingerprinting_bases \notin {None, <<>>} THEN ret.args.fingerprinting_bases
              ELSE InheritedFingerprintingBases

\* C24 witness: a child built with enhancements_base "" and fingerprinting_bases []
\* on a base that has an enhancements base and fingerprinting bases, and keeps both
C24_Witness ==
    /\ Built /\ OnBase
    /\ ret.args.enhancements_base = <<>>
    /\ ret.args.fingerprinting_bases = <<>>
    /\ Parent.enhancements_base = <<"e">>
    /\ Parent.fingerprinting_bases = <<"b">>
    /\ Child.enhancements_base = <<"e">>
    /\ Child.fingerprinting_bases = <<"b">>


\* a call of create_strategy_configuration on a base has ended, by return or raise
ChildAttempted == OnBase

\* C25: the new configuration is built from copies of the base's dicts: after any
\* number of children built from a base, with strategy, delegate and initial_context
\* overrides, whether a call returns or raises, the base's strategies, delegates and
\* initial_context (and the rest of it) are what they were; and a child's
\* initial_context is the base's with the overrides merged on top.
C25_BaseUntouched ==
    ChildAttempted =>
        /\ ret.baseAfter = ret.base
        /\ configs = ret.base
        /\ Built =>
              /\ DOMAIN Child.initial_context =
                    (DOMAIN Parent.initial_context) \cup (DOMAIN ret.args.initial_context)
              /\ \A k \in DOMAIN Child.initial_context :
                    Child.initial_context[k] =
                        IF k \in DOMAIN ret.args.initial_context
                        THEN ret.args.initial_context[k]
                        ELSE Parent.initial_context[k]

\* C25 witness: a child with a strategy of another id, a delegate and an override of
\* "k" was built on a base that binds "k" and "variant", has a strategy and no
\* delegate; the child differs from the base in all three and the base is as it was
C25_Witness ==
    /\ Built /\ OnBase
    /\ configs = ret.base
    /\ DOMAIN Parent.initial_context = {"k", "variant"}
    /\ Len(Parent.delegates) = 0
    /\ ret.args.strategies = <<F2>>
    /\ Child.strategies # Parent.strategies
    /\ Child.delegates # Parent.delegates
    /\ Child.initial_context["k"] # Parent.initial_context["k"]
    /\ Child.initial_context["variant"] = Parent.initial_context["variant"]


-----------------------------------------------------------------------------
(* Strategies registered under several ids, with a variant processor: SpecAliases *)

\* the Strategy the decorator returns: rv, the one created last, for the last id
ReturnedStrategy(registry, ids) == ODGet(registry, ids[Len(ids)])

\* rv.variant_processor(func) right after the decoration that returned rv: the
\* processor is set on that one Strategy object, which the registry holds under
\* the last id
AttachToReturned(registry, ids, func) ==
    ODSet(registry, ids[Len(ids)], WithVariantProcessor(ReturnedStrategy(registry, ids), func))

\* for each of ids, the processor attached through the decoration that registered it last
RECURSIVE NoteProcessor(_, _, _, _)
NoteProcessor(noted, ids, func, i) ==
    IF i > Len(ids) THEN noted
    ELSE NoteProcessor(ODSet(noted, ids[i], func), ids, func, i + 1)

\* nothing is registered yet, and there is a fresh context
InitAliases ==
    /\ initial_context = EmptyDict
    /\ _stack = CtxInit(initial_context).stack
    /\ scopes = <<>>
    /\ components = <<>>
    /\ configs = <<>>
    /\ STRATEGIES = <<>>
    /\ registered = <<>>
    /\ ret = [op |-> "init"]

\* @strategy(ids=ids, interface=..., score=1) on a function f
DecorateAliases(ids) ==
    LET r == Register(STRATEGIES, ids, "exception", Score(1), "f") IN
    /\ STRATEGIES' = r.registry
    /\ registered' = NoteProcessor(registered, ids, None, 1)
    /\ ret' = [op |-> "strategy", ids |-> ids, exc |-> r.exc]
    /\ UNCHANGED <<_stack, initial_context, scopes, components, configs>>

\* @f.variant_processor on a function func, f being what the decoration just returned
AttachVariantProcessor(func) ==
    /\ ret.op = "strategy"
    /\ STRATEGIES' = AttachToReturned(STRATEGIES, ret.ids, func)
    /\ registered' = NoteProcessor(registered, ret.ids, func, 1)
    /\ ret' = [op |-> "variant_processor", ids |-> ret.ids, exc |-> NoExc]
    /\ UNCHANGED <<_stack, initial_context, scopes, components, configs>>

\* lookup_strategy(strategy_id).get_grouping_components(event, context)
GetComponentsUnder(strategy_id, event, out) ==
    LET found == LookupStrategy(STRATEGIES, strategy_id) IN
    /\ found.exc = NoExc
    /\ CallGetGroupingComponents(found.value, event, out)

\* what the function of the registered strategies may return
AliasOutcomes ==
    {Raises,
     Returns(<<[k |-> <<"a">>, v |-> 1]>>, <<Component(FALSE, <<"h1">>)>>),
     Returns(<<[k |-> <<Bang, "a">>, v |-> 1], [k |-> <<"b">>, v |-> 2]>>,
             <<Component(TRUE, <<"h1">>), Component(TRUE, <<"h1">>)>>)}

NextAliases ==
    \/ \E n \in 1..MaxIds : \E ids \in [1..n -> RegistryIds] : DecorateAliases(ids)
    \/ AttachVariantProcessor(<<"only_contributing">>)
    \/ \E strategy_id \in RegistryIds, out \in AliasOutcomes :
           GetComponentsUnder(strategy_id, {"exception"}, out)

SpecAliases == InitAliases /\ [][NextAliases]_vars

-----------------------------------------------------------------------------
(* Claims about ids registered together *)

\* C28: the strategies registered by one strategy(ids, ...) call behave alike under
\* every id: when a variant processor was attached through the Strategy the
\* decoration returned, get_grouping_components of the Strategy looked up under any
\* of the ids of that decoration (not registered anew since) invokes the processor
\* and returns what it returns.
C28_ProcessorUnderEveryId ==
    (Deduped /\ ODGet(registered, ret.strategy.id) # None) =>
        /\ Len(ret.procCalls) = 1
        /\ ret.value = InvokeProcessor(ODGet(registered, ret.strategy.id), ret.procCalls[1], components)

=============================================================================
